---------------------------- MODULE Spec2Model ----------------------------
(***************************************************************************)
(* A model of the UML model recipes of gaphor (gaphor/UML/recipes.py).     *)
(*                                                                         *)
(* The element graph is the state: every element has a Python class (cls), *)
(* a model it belongs to, and the attributes and collections the recipes   *)
(* read and write.  Each recipe is an operator from a heap (a record of    *)
(* all the attributes) to its outcome; an action applies one recipe to     *)
(* operands chosen among the elements and records the call in res.         *)
(***************************************************************************)
EXTENDS Integers, Sequences, FiniteSets, TLC

\* ------------------------------------------------------------------ bounds

\* The capacity of the element graph: no run creates more elements.
MaxElems == 24
\* The number of relationship constructor calls a run of Spec makes.
MaxCalls == 1
\* The number of associations a run of SpecNav creates.
MaxAssocs == 1
\* The number of apply_stereotype calls a run of SpecApply makes.
MaxApplies == 3
\* The length of the strings a run of SpecRoundTrip passes to the setters.
MaxLen == 2

\* 0 stands for Python's None wherever an element reference may be absent.
None == 0
\* None where a str is expected (no string has a component that long).
NoneStr == <<"None">>
\* An attribute that was never assigned.
Unset == <<"unset">>

\* ------------------------------------------------------------------ state

VARIABLES
    cls,                \* type(element): the Python class name, by element id
    model,              \* element.model, by element id
    live,               \* the elements their model still holds (not unlinked)
    name,               \* NamedElement.name, a sequence of characters
    type,               \* Property.type
    association,        \* Property.association
    aggregation,        \* Property.aggregation
    memberEnd,          \* Association.memberEnd
    ownedEnd,           \* Association.ownedEnd
    navigableOwnedEnd,  \* Association.navigableOwnedEnd
    ownedAttribute,     \* Class/Interface/DataType/Artifact.ownedAttribute
    supplier,           \* Dependency.supplier
    client,             \* Dependency.client
    realizingClassifier,\* Realization.realizingClassifier
    abstraction,        \* Realization.abstraction
    general,            \* Generalization.general
    specific,           \* Generalization.specific
    end,                \* Connector.end
    role,               \* ConnectorEnd.role
    kind,               \* Connector.kind
    appliedStereotype,  \* Element.appliedStereotype
    classifier,         \* InstanceSpecification.classifier
    slot,               \* InstanceSpecification.slot
    definingFeature,    \* Slot.definingFeature
    typeValue,          \* Property.typeValue, Parameter.typeValue
    defaultValue,       \* Property.defaultValue, Parameter.defaultValue
    lowerValue,         \* MultiplicityElement.lowerValue
    upperValue,         \* MultiplicityElement.upperValue
    slotValue,          \* Slot.value
    value,              \* LiteralBoolean/Integer/String/UnlimitedNatural.value
    owningProperty,     \* ValueSpecification.owningProperty
    owningParameter,    \* ValueSpecification.owningParameter
    owningLower,        \* ValueSpecification.owningLower
    owningUpper,        \* ValueSpecification.owningUpper
    owningSlot,         \* ValueSpecification.owningSlot
    calls,              \* the number of recipe calls counted against a bound
    res,                \* the last recipe call: its operands and outcome
    prev,               \* the recipe call before the last one
    input               \* the string a run passes to the from-string setters

heapVars ==
    <<cls, model, live, name, type, association, aggregation, memberEnd,
      ownedEnd, navigableOwnedEnd, ownedAttribute, supplier, client,
      realizingClassifier, abstraction, general, specific, end, role, kind,
      appliedStereotype, classifier, slot, definingFeature, typeValue,
      defaultValue, lowerValue, upperValue, slotValue, value,
      owningProperty, owningParameter, owningLower, owningUpper, owningSlot>>

vars == <<heapVars, calls, res, prev, input>>

\* The element graph as one value, so that a recipe is a function of it.
Heap ==
    [cls |-> cls, model |-> model, live |-> live, name |-> name,
     type |-> type, association |-> association,
     aggregation |-> aggregation, memberEnd |-> memberEnd,
     ownedEnd |-> ownedEnd, navigableOwnedEnd |-> navigableOwnedEnd,
     ownedAttribute |-> ownedAttribute, supplier |-> supplier,
     client |-> client, realizingClassifier |-> realizingClassifier,
     abstraction |-> abstraction, general |-> general,
     specific |-> specific, end |-> end, role |-> role, kind |-> kind,
     appliedStereotype |-> appliedStereotype, classifier |-> classifier,
     slot |-> slot, definingFeature |-> definingFeature,
     typeValue |-> typeValue, defaultValue |-> defaultValue,
     lowerValue |-> lowerValue, upperValue |-> upperValue,
     slotValue |-> slotValue, value |-> value,
     owningProperty |-> owningProperty,
     owningParameter |-> owningParameter, owningLower |-> owningLower,
     owningUpper |-> owningUpper, owningSlot |-> owningSlot]

\* The graph becomes h.
Commit(h) ==
    /\ cls' = h.cls
    /\ model' = h.model
    /\ live' = h.live
    /\ name' = h.name
    /\ type' = h.type
    /\ association' = h.association
    /\ aggregation' = h.aggregation
    /\ memberEnd' = h.memberEnd
    /\ ownedEnd' = h.ownedEnd
    /\ navigableOwnedEnd' = h.navigableOwnedEnd
    /\ ownedAttribute' = h.ownedAttribute
    /\ supplier' = h.supplier
    /\ client' = h.client
    /\ realizingClassifier' = h.realizingClassifier
    /\ abstraction' = h.abstraction
    /\ general' = h.general
    /\ specific' = h.specific
    /\ end' = h.end
    /\ role' = h.role
    /\ kind' = h.kind
    /\ appliedStereotype' = h.appliedStereotype
    /\ classifier' = h.classifier
    /\ slot' = h.slot
    /\ definingFeature' = h.definingFeature
    /\ typeValue' = h.typeValue
    /\ defaultValue' = h.defaultValue
    /\ lowerValue' = h.lowerValue
    /\ upperValue' = h.upperValue
    /\ slotValue' = h.slotValue
    /\ value' = h.value
    /\ owningProperty' = h.owningProperty
    /\ owningParameter' = h.owningParameter
    /\ owningLower' = h.owningLower
    /\ owningUpper' = h.owningUpper
    /\ owningSlot' = h.owningSlot

\* The graph is h in the initial state.
Start(h) ==
    /\ cls = h.cls
    /\ model = h.model
    /\ live = h.live
    /\ name = h.name
    /\ type = h.type
    /\ association = h.association
    /\ aggregation = h.aggregation
    /\ memberEnd = h.memberEnd
    /\ ownedEnd = h.ownedEnd
    /\ navigableOwnedEnd = h.navigableOwnedEnd
    /\ ownedAttribute = h.ownedAttribute
    /\ supplier = h.supplier
    /\ client = h.client
    /\ realizingClassifier = h.realizingClassifier
    /\ abstraction = h.abstraction
    /\ general = h.general
    /\ specific = h.specific
    /\ end = h.end
    /\ role = h.role
    /\ kind = h.kind
    /\ appliedStereotype = h.appliedStereotype
    /\ classifier = h.classifier
    /\ slot = h.slot
    /\ definingFeature = h.definingFeature
    /\ typeValue = h.typeValue
    /\ defaultValue = h.defaultValue
    /\ lowerValue = h.lowerValue
    /\ upperValue = h.upperValue
    /\ slotValue = h.slotValue
    /\ value = h.value
    /\ owningProperty = h.owningProperty
    /\ owningParameter = h.owningParameter
    /\ owningLower = h.owningLower
    /\ owningUpper = h.owningUpper
    /\ owningSlot = h.owningSlot

\* The sequence of n copies of x.
RECURSIVE Fill(_, _)
Fill(n, x) == IF n = 0 THEN <<>> ELSE Append(Fill(n - 1, x), x)

\* A graph holding elements of the classes cs, in the models ms, with the
\* names ns, and no link between them.
NewHeap(cs, ms, ns) ==
    [cls |-> cs, model |-> ms, live |-> 1..Len(cs),
     name |-> ns \o Fill(Len(cs) - Len(ns), NoneStr),
     type |-> Fill(Len(cs), None),
     association |-> Fill(Len(cs), None),
     aggregation |-> Fill(Len(cs), "none"),
     memberEnd |-> Fill(Len(cs), <<>>),
     ownedEnd |-> Fill(Len(cs), <<>>),
     navigableOwnedEnd |-> Fill(Len(cs), <<>>),
     ownedAttribute |-> Fill(Len(cs), <<>>),
     supplier |-> Fill(Len(cs), None),
     client |-> Fill(Len(cs), None),
     realizingClassifier |-> Fill(Len(cs), None),
     abstraction |-> Fill(Len(cs), None),
     general |-> Fill(Len(cs), None),
     specific |-> Fill(Len(cs), None),
     end |-> Fill(Len(cs), <<>>),
     role |-> Fill(Len(cs), None),
     kind |-> Fill(Len(cs), "None"),
     appliedStereotype |-> Fill(Len(cs), <<>>),
     classifier |-> Fill(Len(cs), <<>>),
     slot |-> Fill(Len(cs), <<>>),
     definingFeature |-> Fill(Len(cs), None),
     typeValue |-> Fill(Len(cs), NoneStr),
     defaultValue |-> Fill(Len(cs), None),
     lowerValue |-> Fill(Len(cs), None),
     upperValue |-> Fill(Len(cs), None),
     slotValue |-> Fill(Len(cs), None),
     value |-> Fill(Len(cs), Unset),
     owningProperty |-> Fill(Len(cs), None),
     owningParameter |-> Fill(Len(cs), None),
     owningLower |-> Fill(Len(cs), None),
     owningUpper |-> Fill(Len(cs), None),
     owningSlot |-> Fill(Len(cs), None)]

\* The record of a recipe call: the recipe, its two element operands, its
\* navigability or string operand, whether it raised, the element it
\* returned, the string or list it returned and, where a behaviour keeps
\* it, the graph the call was made on.
Call(op, a, b, arg, raised, ret, val) ==
    [op |-> op, a |-> a, b |-> b, arg |-> arg, raised |-> raised,
     ret |-> ret, val |-> val, pre |-> <<>>]

\* The record c of a call made on the graph h.
Since(c, h) == [c EXCEPT !.pre = h]

NoCall == Call("none", None, None, NoneStr, FALSE, None, <<>>)

\* The outcome of a recipe: the heap after it, whether it raised, the
\* element it returned (None when it returns nothing).
Ok(h, r) == [h |-> h, raised |-> FALSE, ret |-> r]
Raise(h) == [h |-> h, raised |-> TRUE, ret |-> None]

\* ------------------------------------------------------- class hierarchy

\* The direct base classes of each element class.
Bases(c) ==
    CASE c = "Person" -> {"Actor"}
      [] c = "Container" -> {"Package"}
      [] c = "Database" -> {"Container"}
      [] c = "Actor" -> {"BehavioredClassifier"}
      [] c = "Package" -> {"Namespace", "PackageableElement"}
      [] c = "Component" -> {"Class"}
      [] c = "Stereotype" -> {"Class"}
      [] c = "Class" -> {"BehavioredClassifier", "EncapsulatedClassifier"}
      [] c = "EncapsulatedClassifier" -> {"StructuredClassifier"}
      [] c = "StructuredClassifier" -> {"Classifier"}
      [] c = "BehavioredClassifier" -> {"Classifier"}
      [] c = "Interface" -> {"Classifier"}
      [] c = "DataType" -> {"Classifier"}
      [] c = "Artifact" -> {"Classifier"}
      [] c = "Extension" -> {"Association"}
      [] c = "Association" -> {"Classifier", "Relationship"}
      [] c = "Classifier" -> {"Namespace", "Type", "RedefinableElement"}
      [] c = "Type" -> {"PackageableElement"}
      [] c = "Port" -> {"Property"}
      [] c = "ExtensionEnd" -> {"Property"}
      [] c = "Property" -> {"StructuralFeature", "ConnectableElement"}
      [] c = "Parameter" -> {"ConnectableElement", "MultiplicityElement"}
      [] c = "StructuralFeature" ->
            {"Feature", "TypedElement", "MultiplicityElement"}
      [] c = "ConnectableElement" -> {"TypedElement"}
      [] c = "Connector" -> {"Feature"}
      [] c = "Feature" -> {"RedefinableElement"}
      [] c = "ConnectorEnd" -> {"MultiplicityElement"}
      [] c = "Usage" -> {"Dependency"}
      [] c = "Realization" -> {"Abstraction"}
      [] c = "Abstraction" -> {"Dependency"}
      [] c = "Dependency" -> {"DirectedRelationship", "PackageableElement"}
      [] c = "Generalization" -> {"DirectedRelationship"}
      [] c = "DirectedRelationship" -> {"Relationship"}
      [] c = "InstanceSpecification" -> {"PackageableElement"}
      [] c = "LiteralBoolean" -> {"LiteralSpecification"}
      [] c = "LiteralInteger" -> {"LiteralSpecification"}
      [] c = "LiteralString" -> {"LiteralSpecification"}
      [] c = "LiteralUnlimitedNatural" -> {"LiteralSpecification"}
      [] c = "LiteralSpecification" -> {"ValueSpecification"}
      [] c = "ValueSpecification" -> {"TypedElement", "PackageableElement"}
      [] c = "PackageableElement" -> {"NamedElement"}
      [] c = "Namespace" -> {"NamedElement"}
      [] c = "RedefinableElement" -> {"NamedElement"}
      [] c = "TypedElement" -> {"NamedElement"}
      [] c = "NamedElement" -> {"Element"}
      [] c = "MultiplicityElement" -> {"Element"}
      [] c = "Relationship" -> {"Element"}
      [] c = "Slot" -> {"Element"}
      [] OTHER -> {}

\* The element classes of the model.
Classes ==
    {"Person", "Container", "Database", "Actor", "Package", "Component",
     "Stereotype", "Class", "EncapsulatedClassifier", "StructuredClassifier",
     "BehavioredClassifier", "Interface", "DataType", "Artifact",
     "Extension", "Association", "Classifier", "Type", "Port",
     "ExtensionEnd", "Property", "Parameter", "StructuralFeature",
     "ConnectableElement", "Connector", "Feature", "ConnectorEnd", "Usage",
     "Realization", "Abstraction", "Dependency", "Generalization",
     "DirectedRelationship", "InstanceSpecification", "LiteralBoolean",
     "LiteralInteger", "LiteralString", "LiteralUnlimitedNatural",
     "LiteralSpecification", "ValueSpecification", "PackageableElement",
     "Namespace", "RedefinableElement", "TypedElement", "NamedElement",
     "MultiplicityElement", "Relationship", "Slot", "Element"}

RECURSIVE Ancestors(_)
Ancestors(c) == {c} \cup UNION {Ancestors(b) : b \in Bases(c)}

MroTable == [c \in Classes |-> Ancestors(c)]

\* cls.__mro__ restricted to the subclasses of Element, as a set of names.
Mro(c) == MroTable[c]

\* isinstance(x, K) for an element x of class c.
IsInstance(c, K) == K \in Mro(c)

\* ------------------------------------------------------------ collections

Range(q) == {q[i] : i \in 1..Len(q)}

\* x in collection
In(x, q) == x \in Range(q)

\* collection.remove(x)
Remove(q, x) == SelectSeq(q, LAMBDA y : y # x)

\* obj.collection = x: appends x unless the collection already holds it.
Add(q, x) == IF In(x, q) THEN q ELSE Append(q, x)

\* model.create(c): the heap with a new element of class c in model m, its
\* attributes at their defaults.
Create(h, m, c) ==
    [h EXCEPT !.cls = Append(@, c),
              !.model = Append(@, m),
              !.live = @ \cup {Len(h.cls) + 1},
              !.name = Append(@, NoneStr),
              !.aggregation = Append(@, "none"),
              !.kind = Append(@, "None"),
              !.typeValue = Append(@, NoneStr),
              !.value = Append(@, Unset),
              !.type = Append(@, None),
              !.association = Append(@, None),
              !.supplier = Append(@, None),
              !.client = Append(@, None),
              !.realizingClassifier = Append(@, None),
              !.abstraction = Append(@, None),
              !.general = Append(@, None),
              !.specific = Append(@, None),
              !.role = Append(@, None),
              !.definingFeature = Append(@, None),
              !.defaultValue = Append(@, None),
              !.lowerValue = Append(@, None),
              !.upperValue = Append(@, None),
              !.slotValue = Append(@, None),
              !.owningProperty = Append(@, None),
              !.owningParameter = Append(@, None),
              !.owningLower = Append(@, None),
              !.owningUpper = Append(@, None),
              !.owningSlot = Append(@, None),
              !.memberEnd = Append(@, <<>>),
              !.ownedEnd = Append(@, <<>>),
              !.navigableOwnedEnd = Append(@, <<>>),
              !.ownedAttribute = Append(@, <<>>),
              !.end = Append(@, <<>>),
              !.appliedStereotype = Append(@, <<>>),
              !.classifier = Append(@, <<>>),
              !.slot = Append(@, <<>>)]

\* ------------------------------------------------------------ navigability

TYPES_WITH_OWNED_ATTRIBUTE ==
    {"Artifact", "Class", "DataType", "Interface", "StructuredClassifier"}

NavTrue == <<"True">>
NavFalse == <<"False">>
NavNone == NoneStr
NavValues == {NavTrue, NavFalse, NavNone}

\* Property.opposite: the other member end of the end's association.
Opposite(h, e) ==
    LET a == h.association[e]
    IN  IF a # None /\ Len(h.memberEnd[a]) = 2
        THEN IF h.memberEnd[a][1] = e THEN h.memberEnd[a][2]
                                      ELSE h.memberEnd[a][1]
        ELSE None

\* isinstance(owner, TYPES_WITH_OWNED_ATTRIBUTE)
HasOwnedAttribute(h, owner) ==
    /\ owner # None
    /\ Mro(h.cls[owner]) \cap TYPES_WITH_OWNED_ATTRIBUTE # {}

\* set_navigability with the re-insertion chained to the removals by elif:
\* an end that was removed from a collection is not inserted again.
set_navigability_elif(h, assoc, e, nav) ==
    IF Opposite(h, e) = None THEN Raise(h)
    ELSE
    LET owner == h.type[Opposite(h, e)]
        own == HasOwnedAttribute(h, owner)
        held == \/ own /\ In(e, h.ownedAttribute[owner])
                \/ In(e, h.ownedEnd[assoc])
                \/ In(e, h.navigableOwnedEnd[assoc])
        h1  == IF own /\ In(e, h.ownedAttribute[owner])
               THEN [h EXCEPT !.ownedAttribute[owner] = Remove(@, e)]
               ELSE h
        h2  == [h1 EXCEPT !.ownedEnd[assoc] = Remove(@, e),
                          !.navigableOwnedEnd[assoc] = Remove(@, e)]
    IN  Ok(CASE held -> h2
             [] nav = NavTrue ->
                  IF own
                  THEN [h2 EXCEPT !.ownedAttribute[owner] = Add(@, e)]
                  ELSE [h2 EXCEPT !.navigableOwnedEnd[assoc] = Add(@, e)]
             [] nav = NavNone ->
                  [h2 EXCEPT !.ownedEnd[assoc] = Add(@, e)]
             [] OTHER -> h2, None)

\* set_navigability taking the owner to be the end's own type instead of
\* the type of its opposite.
set_navigability_own_type(h, assoc, e, nav) ==
    IF Opposite(h, e) = None THEN Raise(h)
    ELSE
    LET owner == h.type[e]
        own == HasOwnedAttribute(h, owner)
        h1  == IF own /\ In(e, h.ownedAttribute[owner])
               THEN [h EXCEPT !.ownedAttribute[owner] = Remove(@, e)]
               ELSE h
        h2  == [h1 EXCEPT !.ownedEnd[assoc] = Remove(@, e),
                          !.navigableOwnedEnd[assoc] = Remove(@, e)]
    IN  Ok(CASE nav = NavTrue ->
                  IF own
                  THEN [h2 EXCEPT !.ownedAttribute[owner] = Add(@, e)]
                  ELSE [h2 EXCEPT !.navigableOwnedEnd[assoc] = Add(@, e)]
             [] nav = NavNone ->
                  [h2 EXCEPT !.ownedEnd[assoc] = Add(@, e)]
             [] OTHER -> h2, None)

\* set_navigability that inserts the end without first removing it from
\* the collections that hold it.
set_navigability_no_removal(h, assoc, e, nav) ==
    IF Opposite(h, e) = None THEN Raise(h)
    ELSE
    LET owner == h.type[Opposite(h, e)]
        own == HasOwnedAttribute(h, owner)
    IN  Ok(CASE nav = NavTrue ->
                  IF own
                  THEN [h EXCEPT !.ownedAttribute[owner] = Add(@, e)]
                  ELSE [h EXCEPT !.navigableOwnedEnd[assoc] = Add(@, e)]
             [] nav = NavNone ->
                  [h EXCEPT !.ownedEnd[assoc] = Add(@, e)]
             [] OTHER -> h, None)

\* set_navigability that, for a non-navigable end, also takes the end out of
\* the association's member ends.
set_navigability_unmember(h, assoc, e, nav) ==
    IF Opposite(h, e) = None THEN Raise(h)
    ELSE
    LET owner == h.type[Opposite(h, e)]
        own == HasOwnedAttribute(h, owner)
        h3  == [h EXCEPT !.ownedAttribute =
                             [x \in DOMAIN @ |->
                                 IF own /\ x = owner THEN Remove(@[x], e)
                                 ELSE @[x]],
                         !.ownedEnd[assoc] = Remove(@, e),
                         !.navigableOwnedEnd[assoc] = Remove(@, e)]
    IN  Ok(CASE nav = NavTrue ->
                  IF own
                  THEN [h3 EXCEPT !.ownedAttribute[owner] = Add(@, e)]
                  ELSE [h3 EXCEPT !.navigableOwnedEnd[assoc] = Add(@, e)]
             [] nav = NavNone ->
                  [h3 EXCEPT !.ownedEnd[assoc] = Add(@, e)]
             [] OTHER -> [h3 EXCEPT !.memberEnd[assoc] = Remove(@, e)],
           None)

\* set_navigability that empties the association's two end collections
\* where the recipe removes the one end from them.
set_navigability_clear(h, assoc, e, nav) ==
    IF Opposite(h, e) = None THEN Raise(h)
    ELSE
    LET owner == h.type[Opposite(h, e)]
        own == HasOwnedAttribute(h, owner)
        h1  == IF own /\ In(e, h.ownedAttribute[owner])
               THEN [h EXCEPT !.ownedAttribute[owner] = Remove(@, e)]
               ELSE h
        h3  == [h1 EXCEPT !.ownedEnd[assoc] = <<>>,
                          !.navigableOwnedEnd[assoc] = <<>>]
    IN  Ok(CASE nav = NavTrue ->
                  IF own
                  THEN [h3 EXCEPT !.ownedAttribute[owner] = Add(@, e)]
                  ELSE [h3 EXCEPT !.navigableOwnedEnd[assoc] = Add(@, e)]
             [] nav = NavNone ->
                  [h3 EXCEPT !.ownedEnd[assoc] = Add(@, e)]
             [] OTHER -> h3, None)

\* set_navigability(assoc, end, nav)
set_navigability(h, assoc, e, nav) ==
    IF Opposite(h, e) = None THEN Raise(h)
    ELSE
    LET owner == h.type[Opposite(h, e)]
        own == HasOwnedAttribute(h, owner)
        h1  == IF own /\ In(e, h.ownedAttribute[owner])
               THEN [h EXCEPT !.ownedAttribute[owner] = Remove(@, e)]
               ELSE h
        h2  == IF In(e, h1.ownedEnd[assoc])
               THEN [h1 EXCEPT !.ownedEnd[assoc] = Remove(@, e)]
               ELSE h1
        h3  == IF In(e, h2.navigableOwnedEnd[assoc])
               THEN [h2 EXCEPT !.navigableOwnedEnd[assoc] = Remove(@, e)]
               ELSE h2
    IN  Ok(CASE nav = NavTrue ->
                  IF own
                  THEN [h3 EXCEPT !.ownedAttribute[owner] = Add(@, e)]
                  ELSE [h3 EXCEPT !.navigableOwnedEnd[assoc] = Add(@, e)]
             [] nav = NavNone ->
                  [h3 EXCEPT !.ownedEnd[assoc] = Add(@, e)]
             [] OTHER -> h3, None)

\* create_association leaving the ends where they are created: members of
\* the association, their navigability never initialised.
create_association_no_default(h, type_a, type_b) ==
    IF h.model[type_a] # h.model[type_b] THEN Raise(h)
    ELSE
    LET m     == h.model[type_a]
        assoc == Len(h.cls) + 1
        end_a == Len(h.cls) + 2
        end_b == Len(h.cls) + 3
        h1 == Create(Create(Create(h, m, "Association"), m, "Property"),
                     m, "Property")
    IN  Ok([h1 EXCEPT !.association[end_a] = assoc,
                      !.association[end_b] = assoc,
                      !.memberEnd[assoc] = Add(Add(@, end_a), end_b),
                      !.type[end_a] = type_a,
                      !.type[end_b] = type_b], assoc)

\* create_association(type_a, type_b)
create_association(h, type_a, type_b) ==
    IF h.model[type_a] # h.model[type_b] THEN Raise(h)
    ELSE
    LET m     == h.model[type_a]
        assoc == Len(h.cls) + 1
        end_a == Len(h.cls) + 2
        end_b == Len(h.cls) + 3
        h1 == Create(Create(Create(h, m, "Association"), m, "Property"),
                     m, "Property")
        h2 == [h1 EXCEPT !.association[end_a] = assoc,
                         !.memberEnd[assoc] = Add(@, end_a)]
        h3 == [h2 EXCEPT !.association[end_b] = assoc,
                         !.memberEnd[assoc] = Add(@, end_b)]
        h4 == [h3 EXCEPT !.type[end_a] = type_a, !.type[end_b] = type_b]
        r5 == set_navigability(h4, assoc, end_a, NavNone)
        r6 == set_navigability(r5.h, assoc, end_b, NavNone)
    IN  IF r5.raised THEN Raise(r5.h)
        ELSE IF r6.raised THEN Raise(r6.h)
        ELSE Ok(r6.h, assoc)

\* -------------------------------------------------------- relationships

\* create_dependency(supplier, client)
create_dependency(h, sup, cli) ==
    IF h.model[sup] # h.model[cli] THEN Raise(h)
    ELSE
    LET dep == Len(h.cls) + 1
        h1  == Create(h, h.model[sup], "Dependency")
    IN  Ok([h1 EXCEPT !.supplier[dep] = sup, !.client[dep] = cli], dep)

\* create_realization(realizingClassifier, abstraction)
create_realization(h, realizing, abstr) ==
    IF h.model[realizing] # h.model[abstr] THEN Raise(h)
    ELSE
    LET dep == Len(h.cls) + 1
        h1  == Create(h, h.model[realizing], "Realization")
    IN  Ok([h1 EXCEPT !.realizingClassifier[dep] = realizing,
                      !.abstraction[dep] = abstr], dep)

\* create_generalization(general, specific)
create_generalization(h, gen, spec) ==
    IF h.model[gen] # h.model[spec] THEN Raise(h)
    ELSE
    LET g  == Len(h.cls) + 1
        h1 == Create(h, h.model[gen], "Generalization")
    IN  Ok([h1 EXCEPT !.general[g] = gen, !.specific[g] = spec], g)

baseClass == <<"b", "a", "s", "e", "C", "l", "a", "s", "s">>

\* create_extension(metaclass, stereotype)
create_extension(h, metaclass, stereotype) ==
    IF h.model[metaclass] # h.model[stereotype] THEN Raise(h)
    ELSE
    LET m       == h.model[metaclass]
        ext     == Len(h.cls) + 1
        p       == Len(h.cls) + 2
        ext_end == Len(h.cls) + 3
        h1 == Create(Create(Create(h, m, "Extension"), m, "Property"),
                     m, "ExtensionEnd")
        h2 == [h1 EXCEPT !.memberEnd[ext] = Add(Add(@, p), ext_end),
                         !.association[p] = ext,
                         !.association[ext_end] = ext,
                         !.ownedEnd[ext] = Add(@, ext_end),
                         !.type[ext_end] = stereotype,
                         !.aggregation[ext_end] = "composite",
                         !.type[p] = metaclass,
                         !.name[p] = baseClass]
        h3 == [h2 EXCEPT !.ownedAttribute[stereotype] = Add(@, p)]
    IN  Ok([h3 EXCEPT !.ownedAttribute[metaclass] = Add(@, ext_end)], ext)

\* create_connector without the check that both operands are of one model.
create_connector_unchecked(h, type_a, type_b) ==
    LET m     == h.model[type_a]
        conn  == Len(h.cls) + 1
        end_a == Len(h.cls) + 2
        end_b == Len(h.cls) + 3
        h1 == Create(Create(Create(h, m, "Connector"), m, "ConnectorEnd"),
                     m, "ConnectorEnd")
    IN  Ok([h1 EXCEPT !.end[conn] = Add(Add(@, end_a), end_b),
                      !.role[end_a] = type_a,
                      !.role[end_b] = type_b,
                      !.kind[conn] = "assembly"], conn)

\* create_connector(type_a, type_b)
create_connector(h, type_a, type_b) ==
    IF h.model[type_a] # h.model[type_b] THEN Raise(h)
    ELSE
    LET m     == h.model[type_a]
        conn  == Len(h.cls) + 1
        end_a == Len(h.cls) + 2
        end_b == Len(h.cls) + 3
        h1 == Create(Create(Create(h, m, "Connector"), m, "ConnectorEnd"),
                     m, "ConnectorEnd")
        h2 == [h1 EXCEPT !.end[conn] = Add(Add(@, end_a), end_b),
                         !.role[end_a] = type_a,
                         !.role[end_b] = type_b]
        delegation ==
            \/ /\ IsInstance(h2.cls[end_a], "Port")
               /\ IsInstance(h2.cls[end_b], "Property")
            \/ /\ IsInstance(h2.cls[end_a], "Property")
               /\ IsInstance(h2.cls[end_b], "Port")
    IN  Ok([h2 EXCEPT !.kind[conn] =
                IF delegation THEN "delegation" ELSE "assembly"], conn)

\* apply_stereotype(element, stereotype)
apply_stereotype(h, element, stereotype) ==
    IF h.model[element] # h.model[stereotype] THEN Raise(h)
    ELSE
    LET obj == Len(h.cls) + 1
        h1  == Create(h, h.model[element], "InstanceSpecification")
    IN  Ok([h1 EXCEPT !.classifier[obj] = Add(@, stereotype),
                      !.appliedStereotype[element] = Add(@, obj)], obj)

\* add_slot(instance, definingFeature)
add_slot(h, instance, feature) ==
    IF h.model[instance] # h.model[feature] THEN Raise(h)
    ELSE
    LET s  == Len(h.cls) + 1
        h1 == Create(h, h.model[instance], "Slot")
    IN  Ok([h1 EXCEPT !.definingFeature[s] = feature,
                      !.slot[instance] = Add(@, s)], s)

\* dependency_type as its docstring words it: a realization when the client
\* is a component and the supplier a classifier.
dependency_type_docstring(h, cli, sup) ==
    IF IsInstance(h.cls[sup], "Interface") THEN "Usage"
    ELSE IF /\ IsInstance(h.cls[cli], "Component")
            /\ IsInstance(h.cls[sup], "Classifier")
         THEN "Realization"
         ELSE "Dependency"

\* dependency_type(client, supplier): the class of dependency to create.
dependency_type(h, cli, sup) ==
    IF IsInstance(h.cls[sup], "Interface") THEN "Usage"
    ELSE IF /\ IsInstance(h.cls[sup], "Component")
            /\ IsInstance(h.cls[cli], "Classifier")
            /\ ~IsInstance(h.cls[cli], "Component")
         THEN "Realization"
         ELSE "Dependency"

\* ------------------------------------------------------------------ unlink

\* The elements x owns through a composite association.
Owned(h, x) ==
    (Range(h.slot[x]) \cup Range(h.appliedStereotype[x])
       \cup Range(h.ownedAttribute[x]) \cup Range(h.ownedEnd[x])
       \cup Range(h.end[x])
       \cup {h.slotValue[x], h.defaultValue[x], h.lowerValue[x],
             h.upperValue[x]}) \ {None}

\* A reference attribute once x is gone: x's own is cleared, and so is
\* every reference to x.
ClearRef(f, x) ==
    [i \in 1..Len(f) |-> IF i = x \/ f[i] = x THEN None ELSE f[i]]

\* A collection attribute once x is gone.
ClearCol(f, x) ==
    [i \in 1..Len(f) |-> IF i = x THEN <<>> ELSE Remove(f[i], x)]

\* x leaves its model and every association it takes part in.
Detach(h, x) ==
    [h EXCEPT !.live = @ \ {x},
              !.type = ClearRef(@, x),
              !.association = ClearRef(@, x),
              !.supplier = ClearRef(@, x),
              !.client = ClearRef(@, x),
              !.realizingClassifier = ClearRef(@, x),
              !.abstraction = ClearRef(@, x),
              !.general = ClearRef(@, x),
              !.specific = ClearRef(@, x),
              !.role = ClearRef(@, x),
              !.definingFeature = ClearRef(@, x),
              !.defaultValue = ClearRef(@, x),
              !.lowerValue = ClearRef(@, x),
              !.upperValue = ClearRef(@, x),
              !.slotValue = ClearRef(@, x),
              !.owningProperty = ClearRef(@, x),
              !.owningParameter = ClearRef(@, x),
              !.owningLower = ClearRef(@, x),
              !.owningUpper = ClearRef(@, x),
              !.owningSlot = ClearRef(@, x),
              !.memberEnd = ClearCol(@, x),
              !.ownedEnd = ClearCol(@, x),
              !.navigableOwnedEnd = ClearCol(@, x),
              !.ownedAttribute = ClearCol(@, x),
              !.end = ClearCol(@, x),
              !.appliedStereotype = ClearCol(@, x),
              !.classifier = ClearCol(@, x),
              !.slot = ClearCol(@, x)]

RECURSIVE UnlinkAll(_, _)
UnlinkAll(h, S) ==
    IF S = {} THEN h
    ELSE LET x == CHOOSE y \in S : TRUE
         IN  UnlinkAll(Detach(h, x), ((S \ {x}) \cup Owned(h, x)) \cap h.live)

\* element.unlink(): the element and, transitively, what it owns.
unlink(h, x) == UnlinkAll(h, {x})

\* ------------------------------------------------------------ stereotypes

\* The first index of q that holds a member of S, 0 if none.
First(q, S) ==
    IF \E i \in 1..Len(q) : q[i] \in S
    THEN CHOOSE i \in 1..Len(q) :
             q[i] \in S /\ \A j \in 1..(i - 1) : q[j] \notin S
    ELSE 0

\* remove_stereotype that takes the instance out of the collection and
\* forgets to unlink it.
remove_stereotype_no_unlink(h, element, stereotype) ==
    LET Match(obj) == /\ h.classifier[obj] # <<>>
                      /\ h.classifier[obj][1] = stereotype
        i == First(h.appliedStereotype[element],
                   {o \in Range(h.appliedStereotype[element]) : Match(o)})
    IN  IF i = 0 THEN Ok(h, None)
        ELSE Ok([h EXCEPT !.appliedStereotype[element] =
                              Remove(@, h.appliedStereotype[element][i])],
                None)

\* remove_stereotype that discards every instance of the stereotype.
remove_stereotype_all(h, element, stereotype) ==
    LET Match(obj) == /\ h.classifier[obj] # <<>>
                      /\ h.classifier[obj][1] = stereotype
        objs == {o \in Range(h.appliedStereotype[element]) : Match(o)}
    IN  Ok(UnlinkAll(h, objs), None)

\* remove_stereotype(element, stereotype)
remove_stereotype(h, element, stereotype) ==
    LET Match(obj) == /\ h.classifier[obj] # <<>>
                      /\ h.classifier[obj][1] = stereotype
        i == First(h.appliedStereotype[element],
                   {o \in Range(h.appliedStereotype[element]) : Match(o)})
    IN  IF i = 0 THEN Ok(h, None)
        ELSE LET obj == h.appliedStereotype[element][i]
                 h1  == [h EXCEPT !.appliedStereotype[element] =
                                       Remove(@, obj)]
             IN  Ok(unlink(h1, obj), None)

\* The elements of class c.
OfClass(h, c) == {i \in 1..Len(h.cls) : h.cls[i] = c}

\* The elements that are instances of class K.
Instances(h, K) == {i \in 1..Len(h.cls) : IsInstance(h.cls[i], K)}

\* ----------------------------------------------------------------- strings

\* The characters strings are made of, in code point order.
Chars ==
    <<"*", "-", "0", "1", "2", "3", "4", "5", "6", "7", "8", "9",
      "A", "B", "C", "N", "P",
      "a", "b", "c", "e", "f", "l", "m", "n", "o", "p", "r", "s", "t", "u",
      "x", "y">>

\* ord(c)
Ord(c) == CHOOSE i \in 1..Len(Chars) : Chars[i] = c

\* s < t for two str: the order of the first characters that differ, a
\* proper prefix before the longer string.
LessStr(s, t) ==
    \E i \in 1..Len(t) :
        /\ \A j \in 1..(i - 1) : j <= Len(s) /\ s[j] = t[j]
        /\ \/ i = Len(s) + 1
           \/ i <= Len(s) /\ Ord(s[i]) < Ord(t[i])

\* cls.__name__ for the kinds whose names elements of the model bear.
ClassName(c) ==
    CASE c = "Class" -> <<"C", "l", "a", "s", "s">>
      [] c = "Component" ->
            <<"C", "o", "m", "p", "o", "n", "e", "n", "t">>
      [] c = "Property" -> <<"P", "r", "o", "p", "e", "r", "t", "y">>
      [] OTHER -> <<c>>

\* c.isupper() for a character c.
isupper(c) == c \in {"A", "B", "C", "N", "P"}

\* c.lower() for a character c.
lower(c) ==
    CASE c = "A" -> "a"
      [] c = "B" -> "b"
      [] c = "C" -> "c"
      [] c = "N" -> "n"
      [] c = "P" -> "p"
      [] OTHER -> c

\* stereotype_name(stereotype): the name with its first character in lower
\* case unless the second is in upper case; "" for no name.
stereotype_name(h, stereotype) ==
    LET nm == h.name[stereotype]
    IN  IF nm = NoneStr \/ nm = <<>> THEN <<>>
        ELSE IF Len(nm) > 1 /\ isupper(nm[2]) THEN nm
        ELSE <<lower(nm[1])>> \o Tail(nm)

\* sorted(q, key): q in the order of its keys, equal keys in the order of
\* q; key[x] is the key of the element x.
Sorted(q, key) ==
    LET rank(k) == Cardinality({j \in 1..Len(q) :
                        \/ LessStr(key[q[j]], key[q[k]])
                        \/ key[q[j]] = key[q[k]] /\ j < k}) + 1
    IN  [r \in 1..Len(q) |-> q[CHOOSE k \in 1..Len(q) : rank(k) = r]]

\* The sequences that enumerate the set S: the orders in which iterating
\* over a Python set may yield its members.
Orders(S) ==
    {q \in [1..Cardinality(S) -> S] :
        \A i, j \in 1..Cardinality(S) : i # j => q[i] # q[j]}

\* Class.extension: the extensions an end of which is typed by the class.
Extension(h, c) ==
    {x \in Instances(h, "Extension") \cap h.live :
        \E e \in Range(h.memberEnd[x]) : h.type[e] = c}

\* Classifier.specialization[:].specific: the specific ends of the
\* generalizations of s, in the order they were created.
Specifics(h, s) ==
    LET gens == {g \in Instances(h, "Generalization") \cap h.live :
                    h.general[g] = s /\ h.specific[g] # None}
    IN  [i \in 1..Cardinality(gens) |->
            h.specific[CHOOSE g \in gens :
                Cardinality({k \in gens : k < g}) = i - 1]]

\* The stereotypes that extend a class named as one of element's kinds.
Extending(h, element) ==
    LET names   == {ClassName(c) : c \in Mro(h.cls[element])}
        classes == {e \in Instances(h, "Class") \cap h.live :
                       /\ h.model[e] = h.model[element]
                       /\ h.name[e] \in names}
    IN  {h.type[h.ownedEnd[ext][1]] :
            ext \in UNION {Extension(h, c) : c \in classes}}

\* The for loops of get_stereotypes over the list all: the stereotypes that
\* specialize all[i] are appended to the list the loop walks.
RECURSIVE Specializing(_, _, _)
Specializing(h, all, i) ==
    IF i > Len(all) THEN all
    ELSE LET subs == Specifics(h, all[i])
             add[k \in 0..Len(subs)] ==
                 IF k = 0 THEN all
                 ELSE IF /\ IsInstance(h.cls[subs[k]], "Stereotype")
                         /\ ~In(subs[k], add[k - 1])
                      THEN Append(add[k - 1], subs[k])
                      ELSE add[k - 1]
         IN  Specializing(h, add[Len(subs)], i + 1)

\* The outcome of a query: the list it returned, or that it raised.
Returned(h, v) == [h |-> h, raised |-> FALSE, ret |-> None, val |-> v]
Failed(h) == [h |-> h, raised |-> TRUE, ret |-> None, val |-> <<>>]

\* get_stereotypes(element), where order is the order in which the set of
\* the extending stereotypes is listed.  sorted() compares the names: with
\* two or more stereotypes, a name that is None raises TypeError.
get_stereotypes(h, element, order) ==
    IF IsInstance(h.cls[element], "Stereotype") THEN Returned(h, <<>>)
    ELSE LET all == Specializing(h, order, 1)
         IN  IF /\ Len(all) >= 2
                /\ \E i \in 1..Len(all) : h.name[all[i]] = NoneStr
             THEN Failed(h)
             ELSE Returned(h, Sorted(all, h.name))

\* ---------------------------------------------------------------- literals

Digits == {"0", "1", "2", "3", "4", "5", "6", "7", "8", "9"}

\* The value of a decimal digit.
DigitVal(c) == Ord(c) - Ord("0")

\* str.isnumeric(), for strings of the characters of Chars.
isnumeric(s) == Len(s) >= 1 /\ \A i \in 1..Len(s) : s[i] \in Digits

\* int(s) succeeds: digits after an optional minus sign (of the characters
\* of Chars none is a plus sign, a space or an underscore).
IsInt(s) ==
    \/ isnumeric(s)
    \/ Len(s) >= 2 /\ s[1] = "-" /\ isnumeric(Tail(s))

\* The number a string of digits denotes.
RECURSIVE Decimal(_)
Decimal(d) ==
    IF d = <<>> THEN 0
    ELSE 10 * Decimal(SubSeq(d, 1, Len(d) - 1)) + DigitVal(d[Len(d)])

\* int(s), for a string int() accepts.
ParseInt(s) == IF s[1] = "-" THEN 0 - Decimal(Tail(s)) ELSE Decimal(s)

\* str(n) for a natural number n.
RECURSIVE NatToStr(_)
NatToStr(n) ==
    IF n < 10 THEN <<Chars[Ord("0") + n]>>
    ELSE Append(NatToStr(n \div 10), Chars[Ord("0") + (n % 10)])

\* str(n) for an int n.
IntToStr(n) == IF n < 0 THEN <<"-">> \o NatToStr(0 - n) ELSE NatToStr(n)

\* str(None)
StrOfNone == <<"N", "o", "n", "e">>
StrTrue == <<"t", "r", "u", "e">>
StrFalse == <<"f", "a", "l", "s", "e">>
StrStar == <<"*">>

\* The values a literal holds: an int, a bool, a str, a finite Decimal or
\* the infinite one (Unset where the value was never assigned).
IntValue(n) == <<"int", n>>
BoolValue(b) == <<"bool", b>>
StrValue(s) == <<"str", s>>
NatValue(n) == <<"nat", n>>
Infinity == <<"inf">>

\* get_literal_value_as_string that prints a boolean the way str() does.
get_literal_value_as_string_str(h, v) ==
    IF v = None THEN Returned(h, NoneStr)
    ELSE LET c == h.cls[v]
             x == h.value[v]
         IN  CASE IsInstance(c, "LiteralUnlimitedNatural") ->
                    IF x = Unset THEN Failed(h)
                    ELSE IF x = Infinity THEN Returned(h, StrStar)
                    ELSE Returned(h, IntToStr(x[2]))
               [] IsInstance(c, "LiteralInteger") ->
                    IF x = Unset THEN Returned(h, StrOfNone)
                    ELSE Returned(h, IntToStr(x[2]))
               [] IsInstance(c, "LiteralString") ->
                    IF x = Unset THEN Returned(h, StrOfNone)
                    ELSE Returned(h, x[2])
               [] IsInstance(c, "LiteralBoolean") ->
                    IF x = Unset THEN Returned(h, StrOfNone)
                    ELSE IF x = BoolValue(TRUE)
                         THEN Returned(h, <<"T", "r", "u", "e">>)
                         ELSE Returned(h, <<"F", "a", "l", "s", "e">>)
               [] OTHER -> Returned(h, NoneStr)

\* get_literal_value_as_string(value)
get_literal_value_as_string(h, v) ==
    IF v = None THEN Returned(h, NoneStr)
    ELSE LET c == h.cls[v]
             x == h.value[v]
         IN  CASE IsInstance(c, "LiteralUnlimitedNatural") ->
                    IF x = Unset THEN Failed(h)
                    ELSE IF x = Infinity THEN Returned(h, StrStar)
                    ELSE Returned(h, IntToStr(x[2]))
               [] IsInstance(c, "LiteralInteger") ->
                    IF x = Unset THEN Returned(h, StrOfNone)
                    ELSE Returned(h, IntToStr(x[2]))
               [] IsInstance(c, "LiteralString") ->
                    IF x = Unset THEN Returned(h, StrOfNone)
                    ELSE Returned(h, x[2])
               [] IsInstance(c, "LiteralBoolean") ->
                    IF x = BoolValue(TRUE) THEN Returned(h, StrTrue)
                    ELSE Returned(h, StrFalse)
               [] OTHER -> Returned(h, NoneStr)

\* The type a value is given when the feature has none: bool, int or str.
InferredType(text) ==
    IF text = StrTrue \/ text = StrFalse THEN <<"bool">>
    ELSE IF isnumeric(text) THEN <<"int">>
    ELSE <<"str">>

\* create_value_specification_for_type_and_value(model, type, value)
create_value_specification_for_type_and_value(h, m, t, text) ==
    IF text = NoneStr THEN Ok(h, None)
    ELSE
    LET ty  == IF t = NoneStr THEN InferredType(text) ELSE t
        lit == Len(h.cls) + 1
    IN  CASE ty \in {<<"bool">>, <<"Boolean">>} ->
               LET h1 == Create(h, m, "LiteralBoolean")
               IN  IF text = StrTrue
                   THEN Ok([h1 EXCEPT !.value[lit] = BoolValue(TRUE),
                                      !.name[lit] = StrTrue], lit)
                   ELSE Ok([h1 EXCEPT !.value[lit] = BoolValue(FALSE),
                                      !.name[lit] = StrFalse], lit)
          [] ty \in {<<"str">>, <<"String">>} ->
               LET h1 == Create(h, m, "LiteralString")
               IN  Ok([h1 EXCEPT !.value[lit] = StrValue(text),
                                 !.name[lit] =
                                     SelectSeq(text, LAMBDA c : c # "\"")],
                      lit)
          [] ty \in {<<"int">>, <<"Integer">>} ->
               LET h1 == Create(h, m, "LiteralInteger")
               IN  IF ~IsInt(text) THEN Raise(h1)
                   ELSE Ok([h1 EXCEPT !.value[lit] =
                                          IntValue(ParseInt(text)),
                                      !.name[lit] = text], lit)
          [] ty = <<"UnlimitedNatural">> ->
               LET h1 == Create(h, m, "LiteralUnlimitedNatural")
               IN  IF text = StrStar
                   THEN Ok([h1 EXCEPT !.value[lit] = Infinity,
                                      !.name[lit] = StrStar], lit)
                   ELSE IF ~IsInt(text) THEN Raise(h1)
                   ELSE Ok([h1 EXCEPT !.value[lit] =
                                          NatValue(ParseInt(text)),
                                      !.name[lit] = text], lit)
          [] OTHER -> Ok(h, None)

\* `if owner.feature: owner.feature.unlink()` for the literal lit.
Discard(h, lit) == IF lit # None THEN unlink(h, lit) ELSE h

\* get_property_default_value_as_string(property)
get_property_default_value_as_string(h, property) ==
    get_literal_value_as_string(h, h.defaultValue[property])

\* get_parameter_default_value_as_string(parameter)
get_parameter_default_value_as_string(h, parameter) ==
    get_literal_value_as_string(h, h.defaultValue[parameter])

\* set_property_default_value_from_string(property, value)
set_property_default_value_from_string(h, property, text) ==
    LET h1 == Discard(h, h.defaultValue[property])
    IN  IF text = NoneStr THEN Ok(h1, None)
        ELSE LET r == create_value_specification_for_type_and_value(
                          h1, h1.model[property], h1.typeValue[property],
                          text)
             IN  IF r.raised THEN Raise(r.h)
                 ELSE IF r.ret = None THEN Ok(r.h, None)
                 ELSE Ok([r.h EXCEPT !.defaultValue[property] = r.ret,
                                     !.owningProperty[r.ret] = property],
                         None)

\* set_parameter_default_value(parameter, value), value a literal or None
set_parameter_default_value(h, parameter, lit) ==
    LET h1 == Discard(h, h.defaultValue[parameter])
    IN  IF lit = None THEN Ok(h1, None)
        ELSE Ok([h1 EXCEPT !.defaultValue[parameter] = lit,
                           !.owningParameter[lit] = parameter], None)

\* set_parameter_default_value_from_string(parameter, value)
set_parameter_default_value_from_string(h, parameter, text) ==
    LET h1 == Discard(h, h.defaultValue[parameter])
    IN  IF text = NoneStr THEN Ok(h1, None)
        ELSE LET r == create_value_specification_for_type_and_value(
                          h1, h1.model[parameter], h1.typeValue[parameter],
                          text)
             IN  IF r.raised THEN Raise(r.h)
                 ELSE IF r.ret = None THEN Ok(r.h, None)
                 ELSE Ok([r.h EXCEPT !.defaultValue[parameter] = r.ret,
                                     !.owningParameter[r.ret] = parameter],
                         None)

\* get_property_lower_value_as_string(property)
get_property_lower_value_as_string(h, property) ==
    LET lit == h.lowerValue[property]
    IN  IF lit = None THEN Returned(h, NoneStr)
        ELSE IF IsInstance(h.cls[lit], "LiteralInteger")
        THEN Returned(h, IF h.value[lit] = Unset THEN StrOfNone
                         ELSE IntToStr(h.value[lit][2]))
        ELSE Returned(h, NoneStr)

\* set_property_lower_value(property, value), value an int or None
set_property_lower_value(h, property, n) ==
    LET h1  == Discard(h, h.lowerValue[property])
        lit == Len(h.cls) + 1
    IN  IF n = NoneStr THEN Ok(h1, None)
        ELSE Ok([Create(h1, h1.model[property], "LiteralInteger")
                    EXCEPT !.lowerValue[property] = lit,
                           !.owningLower[lit] = property,
                           !.value[lit] = n,
                           !.name[lit] = IntToStr(n[2])], None)

\* set_property_lower_value_from_string that attaches the new literal
\* without discarding the one attached before.
set_property_lower_value_from_string_keep(h, property, text) ==
    LET lit == Len(h.cls) + 1
    IN  IF text = NoneStr
        THEN Ok([h EXCEPT !.lowerValue[property] = None], None)
        ELSE LET h2 == [Create(h, h.model[property], "LiteralInteger")
                           EXCEPT !.lowerValue[property] = lit,
                                  !.owningLower[lit] = property]
             IN  IF ~IsInt(text) THEN Raise(h2)
                 ELSE Ok([h2 EXCEPT !.value[lit] = IntValue(ParseInt(text)),
                                    !.name[lit] = text], None)

\* set_property_lower_value_from_string(property, value): the literal is
\* attached before int(value) may raise.
set_property_lower_value_from_string(h, property, text) ==
    LET h1  == Discard(h, h.lowerValue[property])
        lit == Len(h.cls) + 1
    IN  IF text = NoneStr THEN Ok(h1, None)
        ELSE LET h2 == [Create(h1, h1.model[property], "LiteralInteger")
                           EXCEPT !.lowerValue[property] = lit,
                                  !.owningLower[lit] = property]
             IN  IF ~IsInt(text) THEN Raise(h2)
                 ELSE Ok([h2 EXCEPT !.value[lit] = IntValue(ParseInt(text)),
                                    !.name[lit] = text], None)

\* get_property_upper_value_as_string(property)
get_property_upper_value_as_string(h, property) ==
    LET lit == h.upperValue[property]
    IN  IF lit = None THEN Returned(h, NoneStr)
        ELSE IF IsInstance(h.cls[lit], "LiteralUnlimitedNatural")
        THEN IF h.value[lit] = Unset THEN Failed(h)
             ELSE IF h.value[lit] = Infinity THEN Returned(h, StrStar)
             ELSE Returned(h, IntToStr(h.value[lit][2]))
        ELSE Returned(h, NoneStr)

\* set_property_upper_value(property, value), value a Decimal or None
set_property_upper_value(h, property, n) ==
    LET h1  == Discard(h, h.upperValue[property])
        lit == Len(h.cls) + 1
    IN  IF n = NoneStr THEN Ok(h1, None)
        ELSE Ok([Create(h1, h1.model[property], "LiteralUnlimitedNatural")
                    EXCEPT !.upperValue[property] = lit,
                           !.owningUpper[lit] = property,
                           !.value[lit] = n,
                           !.name[lit] = IF n = Infinity THEN StrStar
                                         ELSE IntToStr(n[2])], None)

\* set_property_upper_value_from_string(property, value)
set_property_upper_value_from_string(h, property, text) ==
    LET h1  == Discard(h, h.upperValue[property])
        lit == Len(h.cls) + 1
    IN  IF text = NoneStr THEN Ok(h1, None)
        ELSE LET h2 == [Create(h1, h1.model[property],
                               "LiteralUnlimitedNatural")
                           EXCEPT !.upperValue[property] = lit,
                                  !.owningUpper[lit] = property]
             IN  IF text = StrStar
                 THEN Ok([h2 EXCEPT !.value[lit] = Infinity,
                                    !.name[lit] = text], None)
                 ELSE IF ~IsInt(text) THEN Raise(h2)
                 ELSE Ok([h2 EXCEPT !.value[lit] = NatValue(ParseInt(text)),
                                    !.name[lit] = text], None)

\* The recipes of a MultiplicityElement and of a Parameter repeat the
\* statements of the recipes of a Property.
get_multiplicity_lower_value_as_string(h, multiplicity) ==
    get_property_lower_value_as_string(h, multiplicity)
set_multiplicity_lower_value(h, multiplicity, n) ==
    set_property_lower_value(h, multiplicity, n)
set_multiplicity_lower_value_from_string(h, multiplicity, text) ==
    set_property_lower_value_from_string(h, multiplicity, text)
get_multiplicity_upper_value_as_string(h, multiplicity) ==
    get_property_upper_value_as_string(h, multiplicity)
set_multiplicity_upper_value(h, multiplicity, n) ==
    set_property_upper_value(h, multiplicity, n)
set_multiplicity_upper_value_from_string(h, multiplicity, text) ==
    set_property_upper_value_from_string(h, multiplicity, text)
get_parameter_lower_value_as_string(h, parameter) ==
    get_property_lower_value_as_string(h, parameter)
set_parameter_lower_value(h, parameter, n) ==
    set_property_lower_value(h, parameter, n)
set_parameter_lower_value_from_string(h, parameter, text) ==
    set_property_lower_value_from_string(h, parameter, text)
get_parameter_upper_value_as_string(h, parameter) ==
    get_property_upper_value_as_string(h, parameter)
set_parameter_upper_value(h, parameter, n) ==
    set_property_upper_value(h, parameter, n)
set_parameter_upper_value_from_string(h, parameter, text) ==
    set_property_upper_value_from_string(h, parameter, text)

\* set_slot_value(slot, value)
set_slot_value(h, s, text) ==
    LET h1  == Discard(h, h.slotValue[s])
        lit == Len(h.cls) + 1
    IN  Ok([Create(h1, h1.model[s], "LiteralString")
               EXCEPT !.slotValue[s] = lit,
                      !.owningSlot[lit] = s,
                      !.value[lit] = StrValue(text)], None)

\* ------------------------------------------------- navigability: behaviours

\* One model holding a Class and an Interface, types that own their
\* attributes, and an Actor, a type that does not.
InitNav ==
    /\ Start(NewHeap(<<"Class", "Actor", "Interface">>, <<1, 1, 1>>, <<>>))
    /\ calls = 0
    /\ res = NoCall
    /\ prev = NoCall
    /\ input = NoneStr

CreateAssociation ==
    \E type_a, type_b \in Instances(Heap, "Type") \cap live :
        /\ Cardinality(OfClass(Heap, "Association")) < MaxAssocs
        /\ Len(cls) + 3 <= MaxElems
        /\ LET r == create_association(Heap, type_a, type_b)
           IN  /\ Commit(r.h)
               /\ res' = Call("create_association", type_a, type_b, NoneStr,
                              r.raised, r.ret, <<>>)
        /\ UNCHANGED <<calls, prev, input>>

SetNavigability ==
    \E e \in OfClass(Heap, "Property") \cap live : \E nav \in NavValues :
        /\ association[e] # None
        /\ LET r == set_navigability(Heap, association[e], e, nav)
           IN  /\ Commit(r.h)
               /\ res' = Call("set_navigability", association[e], e, nav,
                              r.raised, r.ret, <<>>)
        /\ UNCHANGED <<calls, prev, input>>

NextNav == CreateAssociation \/ SetNavigability

SpecNav == InitNav /\ [][NextNav]_vars

\* A Class (1) and an Actor (2) of one model with two associations: one
\* between any two of them, a type with itself included, and one from the
\* Class to the Actor.
InitFrame ==
    \E type_a, type_b \in {1, 2} :
        /\ Start(create_association(
                     create_association(
                         NewHeap(<<"Class", "Actor">>, <<1, 1>>, <<>>),
                         type_a, type_b).h,
                     1, 2).h)
        /\ calls = 0
        /\ res = NoCall
        /\ prev = NoCall
        /\ input = NoneStr

\* set_navigability on an end of one of the associations, the graph it is
\* called on kept with the call.
SetNavigabilityFrame ==
    \E e \in OfClass(Heap, "Property") \cap live : \E nav \in NavValues :
        /\ association[e] # None
        /\ LET r == set_navigability(Heap, association[e], e, nav)
           IN  /\ Commit(r.h)
               /\ res' = Since(Call("set_navigability", association[e], e,
                                    nav, r.raised, r.ret, <<>>), Heap)
        /\ UNCHANGED <<calls, prev, input>>

NextFrame == SetNavigabilityFrame

SpecFrame == InitFrame /\ [][NextFrame]_vars

\* ------------------------------------------------ relationships: behaviours

\* The elements of the first model (1..7) and of a second model (8..10).
InitRel ==
    /\ Start(NewHeap(
           <<"Class", "Interface", "Component", "Port", "Property",
             "Stereotype", "InstanceSpecification",
             "Class", "Stereotype", "Property">>,
           <<1, 1, 1, 1, 1, 1, 1, 2, 2, 2>>, <<>>))
    /\ calls = 0
    /\ res = NoCall
    /\ prev = NoCall
    /\ input = NoneStr

\* A constructor call with outcome r.
Constructed(op, a, b, r) ==
    /\ calls < MaxCalls
    /\ Len(cls) + 3 <= MaxElems
    /\ Commit(r.h)
    /\ res' = Call(op, a, b, NoneStr, r.raised, r.ret, <<>>)
    /\ calls' = calls + 1
    /\ UNCHANGED <<prev, input>>

CreateDependency ==
    \E a, b \in Instances(Heap, "Classifier") \cap live :
        Constructed("create_dependency", a, b, create_dependency(Heap, a, b))

CreateRealization ==
    \E a, b \in Instances(Heap, "Classifier") \cap live :
        Constructed("create_realization", a, b,
                    create_realization(Heap, a, b))

CreateGeneralization ==
    \E a, b \in Instances(Heap, "Classifier") \cap live :
        Constructed("create_generalization", a, b,
                    create_generalization(Heap, a, b))

CreateAssociationRel ==
    \E a, b \in Instances(Heap, "Type") \cap live :
        Constructed("create_association", a, b,
                    create_association(Heap, a, b))

CreateConnector ==
    \E a, b \in Instances(Heap, "ConnectableElement") \cap live :
        Constructed("create_connector", a, b, create_connector(Heap, a, b))

CreateExtension ==
    \E a \in Instances(Heap, "Class") \cap live :
        \E b \in Instances(Heap, "Stereotype") \cap live :
            Constructed("create_extension", a, b,
                        create_extension(Heap, a, b))

ApplyStereotypeRel ==
    \E a \in live : \E b \in Instances(Heap, "Stereotype") \cap live :
        Constructed("apply_stereotype", a, b, apply_stereotype(Heap, a, b))

AddSlot ==
    \E a \in Instances(Heap, "InstanceSpecification") \cap live :
        \E b \in Instances(Heap, "StructuralFeature") \cap live :
            Constructed("add_slot", a, b, add_slot(Heap, a, b))

DependencyType ==
    \E cli, sup \in live :
        /\ res' = Call("dependency_type", cli, sup, NoneStr, FALSE, None,
                       <<dependency_type(Heap, cli, sup)>>)
        /\ UNCHANGED <<heapVars, calls, prev, input>>

Next ==
    \/ CreateDependency
    \/ CreateRealization
    \/ CreateGeneralization
    \/ CreateAssociationRel
    \/ CreateConnector
    \/ CreateExtension
    \/ ApplyStereotypeRel
    \/ AddSlot

Spec == InitRel /\ [][Next]_vars

\* dependency_type applied to every pair of elements of the initial graph.
NextDep == DependencyType

SpecDep == InitRel /\ [][NextDep]_vars

\* --------------------------------------- stereotype application: behaviours

\* One model holding a Class and a Property to be stereotyped and two
\* stereotypes.
InitApply ==
    /\ Start(NewHeap(<<"Class", "Property", "Stereotype", "Stereotype">>,
                     <<1, 1, 1, 1>>, <<>>))
    /\ calls = 0
    /\ res = NoCall
    /\ prev = NoCall
    /\ input = NoneStr

\* The elements a run stereotypes.
Stereotyped(h) == (OfClass(h, "Class") \cup OfClass(h, "Property")) \cap h.live

ApplyStereotype ==
    \E element \in Stereotyped(Heap) :
        \E stereotype \in OfClass(Heap, "Stereotype") \cap live :
            /\ calls < MaxApplies
            /\ Len(cls) + 1 <= MaxElems
            /\ LET r == apply_stereotype(Heap, element, stereotype)
               IN  /\ Commit(r.h)
                   /\ res' = Since(Call("apply_stereotype", element,
                                        stereotype, NoneStr, r.raised,
                                        r.ret, <<>>), Heap)
            /\ calls' = calls + 1
            /\ prev' = res
            /\ UNCHANGED input

RemoveStereotype ==
    \E element \in Stereotyped(Heap) :
        \E stereotype \in OfClass(Heap, "Stereotype") \cap live :
            /\ LET r == remove_stereotype(Heap, element, stereotype)
               IN  /\ Commit(r.h)
                   /\ res' = Since(Call("remove_stereotype", element,
                                        stereotype, NoneStr, r.raised,
                                        r.ret, <<>>), Heap)
            /\ prev' = res
            /\ UNCHANGED <<calls, input>>

NextApply == ApplyStereotype \/ RemoveStereotype

SpecApply == InitApply /\ [][NextApply]_vars

\* ------------------------------------------- stereotype search: behaviours

\* The names a stereotype is given: none, and names whose order differs
\* with the case of their first letter.
StereotypeNames == {NoneStr, <<"B">>, <<"a">>, <<"a", "B">>}

\* The heap h after the recipe calls of ops, each <<recipe, a, b>>.
RECURSIVE Built(_, _)
Built(h, ops) ==
    IF ops = <<>> THEN h
    ELSE LET op == Head(ops)
         IN  Built(IF op[1] = "create_extension"
                   THEN create_extension(h, op[2], op[3]).h
                   ELSE create_generalization(h, op[2], op[3]).h,
                   Tail(ops))

\* A profile: the metaclasses Class (1) and Component (2), a Property (3), a
\* Component (4), the stereotypes 5..8, and a Class of another model (9).
\* 5 extends Class, 6 extends Class and Component; 7 specializes 5 and 6,
\* 8 specializes 7, and the Component 4, which is no stereotype, 5.
InitStereo ==
    \E n5, n6, n7, n8 \in StereotypeNames :
        /\ Start(Built(
               NewHeap(<<"Class", "Class", "Property", "Component",
                         "Stereotype", "Stereotype", "Stereotype",
                         "Stereotype", "Class">>,
                       <<1, 1, 1, 1, 1, 1, 1, 1, 2>>,
                       <<ClassName("Class"), ClassName("Component"),
                         NoneStr, NoneStr, n5, n6, n7, n8,
                         ClassName("Class")>>),
               <<<<"create_extension", 1, 5>>,
                 <<"create_extension", 1, 6>>,
                 <<"create_extension", 2, 6>>,
                 <<"create_generalization", 5, 7>>,
                 <<"create_generalization", 6, 7>>,
                 <<"create_generalization", 7, 8>>,
                 <<"create_generalization", 5, 4>>>>))
        /\ calls = 0
        /\ res = NoCall
        /\ prev = NoCall
        /\ input = NoneStr

GetStereotypes ==
    \E element \in live : \E order \in Orders(Extending(Heap, element)) :
        /\ LET r == get_stereotypes(Heap, element, order)
           IN  res' = Call("get_stereotypes", element, None, NoneStr,
                           r.raised, r.ret, r.val)
        /\ UNCHANGED <<heapVars, calls, prev, input>>

NextStereo == GetStereotypes

SpecStereo == InitStereo /\ [][NextStereo]_vars

\* ------------------------------------------------------ literals: behaviours

\* The recipes of a Property, of a Parameter and of any other
\* MultiplicityElement.
Family(c) ==
    IF IsInstance(c, "Property") THEN "property"
    ELSE IF IsInstance(c, "Parameter") THEN "parameter"
    ELSE "multiplicity"

\* The features the recipes of an element's family set.
Features(c) ==
    IF Family(c) = "multiplicity" THEN {"lower", "upper"}
    ELSE {"default", "lower", "upper"}

\* The names of the recipes of a family for a feature.
SetFromStringOp(fam, feat) ==
    "set_" \o fam \o "_" \o feat \o "_value_from_string"
SetOp(fam, feat) == "set_" \o fam \o "_" \o feat \o "_value"
GetAsStringOp(fam, feat) ==
    "get_" \o fam \o "_" \o feat \o "_value_as_string"

\* The literal the feature of owner holds.
Held(h, owner, feat) ==
    CASE feat = "default" -> h.defaultValue[owner]
      [] feat = "lower" -> h.lowerValue[owner]
      [] feat = "upper" -> h.upperValue[owner]
      [] feat = "slot" -> h.slotValue[owner]

\* The call set_<family>_<feat>_value_from_string(owner, text).
SetFromString(h, owner, feat, text) ==
    LET fam == Family(h.cls[owner])
    IN  CASE feat = "default" /\ fam = "property" ->
               set_property_default_value_from_string(h, owner, text)
          [] feat = "default" /\ fam = "parameter" ->
               set_parameter_default_value_from_string(h, owner, text)
          [] feat = "lower" /\ fam = "property" ->
               set_property_lower_value_from_string(h, owner, text)
          [] feat = "lower" /\ fam = "parameter" ->
               set_parameter_lower_value_from_string(h, owner, text)
          [] feat = "lower" /\ fam = "multiplicity" ->
               set_multiplicity_lower_value_from_string(h, owner, text)
          [] feat = "upper" /\ fam = "property" ->
               set_property_upper_value_from_string(h, owner, text)
          [] feat = "upper" /\ fam = "parameter" ->
               set_parameter_upper_value_from_string(h, owner, text)
          [] feat = "upper" /\ fam = "multiplicity" ->
               set_multiplicity_upper_value_from_string(h, owner, text)

\* The call get_<family>_<feat>_value_as_string(owner).
GetAsString(h, owner, feat) ==
    LET fam == Family(h.cls[owner])
    IN  CASE feat = "default" /\ fam = "property" ->
               get_property_default_value_as_string(h, owner)
          [] feat = "default" /\ fam = "parameter" ->
               get_parameter_default_value_as_string(h, owner)
          [] feat = "lower" /\ fam = "property" ->
               get_property_lower_value_as_string(h, owner)
          [] feat = "lower" /\ fam = "parameter" ->
               get_parameter_lower_value_as_string(h, owner)
          [] feat = "lower" /\ fam = "multiplicity" ->
               get_multiplicity_lower_value_as_string(h, owner)
          [] feat = "upper" /\ fam = "property" ->
               get_property_upper_value_as_string(h, owner)
          [] feat = "upper" /\ fam = "parameter" ->
               get_parameter_upper_value_as_string(h, owner)
          [] feat = "upper" /\ fam = "multiplicity" ->
               get_multiplicity_upper_value_as_string(h, owner)

\* The characters of the strings passed to the setters: digits, of which
\* one is zero, the minus sign and a letter.
Alphabet == {"0", "3", "-", "x"}

\* The values passed to the from-string setters: the strings of at most
\* MaxLen characters, "*", "true", "false" and None.
Inputs ==
    UNION {[1..k -> Alphabet] : k \in 0..MaxLen}
        \cup {StrStar, StrTrue, StrFalse, NoneStr}

\* The values of typeValue: none, the supported types and one that is not.
TypeValues ==
    {NoneStr, <<"bool">>, <<"Boolean">>, <<"str">>, <<"String">>, <<"int">>,
     <<"Integer">>, <<"UnlimitedNatural">>, <<"float">>}

\* A Property and a Parameter of one typeValue and a ConnectorEnd, and the
\* value the run passes to the setters.
InitRoundTrip ==
    \E text \in Inputs : \E t \in TypeValues :
        /\ Start([NewHeap(<<"Property", "Parameter", "ConnectorEnd">>,
                          <<1, 1, 1>>, <<>>)
                     EXCEPT !.typeValue = <<t, t, NoneStr>>])
        /\ calls = 0
        /\ res = NoCall
        /\ prev = NoCall
        /\ input = text

SetValueFromString ==
    \E owner \in Instances(Heap, "MultiplicityElement") \cap live :
        \E feat \in Features(cls[owner]) :
            /\ calls < MaxCalls
            /\ Len(cls) + 1 <= MaxElems
            /\ LET r == SetFromString(Heap, owner, feat, input)
               IN  /\ Commit(r.h)
                   /\ res' = Call(SetFromStringOp(Family(cls[owner]), feat),
                                  owner, None, input, r.raised, r.ret, <<>>)
            /\ calls' = calls + 1
            /\ prev' = res
            /\ UNCHANGED input

\* The getter of the feature the last call set.
GetValueAsString ==
    \E owner \in Instances(Heap, "MultiplicityElement") \cap live :
        \E feat \in Features(cls[owner]) :
            /\ res.op = SetFromStringOp(Family(cls[owner]), feat)
            /\ res.a = owner
            /\ LET r == GetAsString(Heap, owner, feat)
               IN  res' = Call(GetAsStringOp(Family(cls[owner]), feat),
                               owner, None, NoneStr, r.raised, r.ret, r.val)
            /\ prev' = res
            /\ UNCHANGED <<heapVars, calls, input>>

NextRoundTrip == SetValueFromString \/ GetValueAsString

SpecRoundTrip == InitRoundTrip /\ [][NextRoundTrip]_vars

\* The call set_<family>_<feat>_value(owner, n), n an int or a Decimal.
SetTyped(h, owner, feat, n) ==
    LET fam == Family(h.cls[owner])
    IN  CASE feat = "lower" /\ fam = "property" ->
               set_property_lower_value(h, owner, n)
          [] feat = "lower" /\ fam = "parameter" ->
               set_parameter_lower_value(h, owner, n)
          [] feat = "lower" /\ fam = "multiplicity" ->
               set_multiplicity_lower_value(h, owner, n)
          [] feat = "upper" /\ fam = "property" ->
               set_property_upper_value(h, owner, n)
          [] feat = "upper" /\ fam = "parameter" ->
               set_parameter_upper_value(h, owner, n)
          [] feat = "upper" /\ fam = "multiplicity" ->
               set_multiplicity_upper_value(h, owner, n)

\* The literals some feature holds.
Attached(h) ==
    (Range(h.defaultValue) \cup Range(h.lowerValue)
        \cup Range(h.upperValue) \cup Range(h.slotValue)) \ {None}

\* The graph after every feature of h was set once from the string text.
Preset(h, text) ==
    LET h1 == set_property_default_value_from_string(h, 1, text).h
        h2 == set_parameter_default_value_from_string(h1, 2, text).h
        h3 == set_property_lower_value_from_string(h2, 1, text).h
        h4 == set_parameter_lower_value_from_string(h3, 2, text).h
        h5 == set_multiplicity_lower_value_from_string(h4, 3, text).h
        h6 == set_property_upper_value_from_string(h5, 1, text).h
        h7 == set_parameter_upper_value_from_string(h6, 2, text).h
        h8 == set_multiplicity_upper_value_from_string(h7, 3, text).h
    IN  set_slot_value(h8, 4, text).h

\* A Property (1), a Parameter (2), a ConnectorEnd (3), a Slot (4) and a
\* LiteralString no feature holds (5); every feature is empty, or every
\* feature holds the literal of an earlier call.  The run passes a string
\* int() accepts or one it rejects.
Literals(t) ==
    [NewHeap(<<"Property", "Parameter", "ConnectorEnd", "Slot",
               "LiteralString">>, <<1, 1, 1, 1, 1>>, <<>>)
        EXCEPT !.typeValue = <<t, t, NoneStr, NoneStr, NoneStr>>]

InitLit ==
    \E text \in {<<"3">>, <<"x">>} : \E t \in {NoneStr, <<"int">>} :
        \E preset \in BOOLEAN :
            /\ Start(IF preset THEN Preset(Literals(t), <<"1">>)
                               ELSE Literals(t))
            /\ calls = 0
            /\ res = NoCall
            /\ prev = NoCall
            /\ input = text

\* A setter call on owner's feature feat with outcome r.
ValueSet(op, owner, feat, arg, r) ==
    /\ calls < MaxCalls
    /\ Len(cls) + 1 <= MaxElems
    /\ Commit(r.h)
    /\ res' = Since(Call(op, owner, None, arg, r.raised, r.ret, <<feat>>),
                    Heap)
    /\ calls' = calls + 1
    /\ prev' = res
    /\ UNCHANGED input

SetFromStringLit ==
    \E owner \in Instances(Heap, "MultiplicityElement") \cap live :
        \E feat \in Features(cls[owner]) : \E text \in {NoneStr, input} :
            ValueSet(SetFromStringOp(Family(cls[owner]), feat), owner, feat,
                     text, SetFromString(Heap, owner, feat, text))

SetLower ==
    \E owner \in Instances(Heap, "MultiplicityElement") \cap live :
        \E n \in {NoneStr, IntValue(2)} :
            ValueSet(SetOp(Family(cls[owner]), "lower"), owner, "lower", n,
                     SetTyped(Heap, owner, "lower", n))

SetUpper ==
    \E owner \in Instances(Heap, "MultiplicityElement") \cap live :
        \E n \in {NoneStr, NatValue(2), Infinity} :
            ValueSet(SetOp(Family(cls[owner]), "upper"), owner, "upper", n,
                     SetTyped(Heap, owner, "upper", n))

\* set_parameter_default_value with no literal or with a literal of the
\* model: one no feature holds, or the one the parameter holds already.
SetParameterDefault ==
    \E parameter \in Instances(Heap, "Parameter") \cap live :
        \E lit \in {None} \cup
                    ((Instances(Heap, "ValueSpecification") \cap live)
                        \ (Attached(Heap) \ {defaultValue[parameter]})) :
            ValueSet("set_parameter_default_value", parameter, "default",
                     IF lit = None THEN NoneStr ELSE <<"literal", lit>>,
                     set_parameter_default_value(Heap, parameter, lit))

SetSlotValue ==
    \E s \in Instances(Heap, "Slot") \cap live :
        ValueSet("set_slot_value", s, "slot", input,
                 set_slot_value(Heap, s, input))

NextLit ==
    \/ SetFromStringLit
    \/ SetLower
    \/ SetUpper
    \/ SetParameterDefault
    \/ SetSlotValue

SpecLit == InitLit /\ [][NextLit]_vars

\* ------------------------------------------------------------------ claims

Constructors ==
    {"create_dependency", "create_association", "create_connector",
     "create_extension", "create_generalization", "create_realization",
     "apply_stereotype", "add_slot"}

\* C1: a relationship constructor called with two elements of different
\* models fails its precondition check: it raises and returns no element.
C1_CrossModelFails ==
    (res.op \in Constructors /\ model[res.a] # model[res.b]) =>
        /\ res.raised
        /\ res.ret = None

\* Every constructor has been called across models once calls are made; this
\* is the connector's cross-model call.
C1_Witness ==
    /\ res.op = "create_connector"
    /\ model[res.a] # model[res.b]
    /\ res.raised

\* The holding collections and the member ends: the membership state that
\* encodes navigability.
NavMembership(h) ==
    <<h.ownedAttribute, h.ownedEnd, h.navigableOwnedEnd, h.memberEnd>>

\* C2: set_navigability is idempotent: in the state a call with nav leaves,
\* the same call again changes none of the owner's ownedAttribute,
\* assoc.ownedEnd, assoc.navigableOwnedEnd and assoc.memberEnd, for each nav
\* and from every state create_association and set_navigability reach.
C2_SetNavigabilityIdempotent ==
    (res.op = "set_navigability" /\ ~res.raised) =>
        LET again == set_navigability(Heap, res.a, res.b, res.arg)
        IN  /\ ~again.raised
            /\ NavMembership(again.h) = NavMembership(Heap)

\* A call with nav = True that moved the end out of assoc.ownedEnd into its
\* owner's ownedAttribute.
C2_Witness ==
    /\ res.op = "set_navigability"
    /\ res.arg = NavTrue
    /\ ~res.raised
    /\ \E c \in OfClass(Heap, "Class") : In(res.b, ownedAttribute[c])

\* C3: after set_navigability(assoc, end, True) with end.opposite.type a
\* Class, end is in that class's ownedAttribute and in neither assoc.ownedEnd
\* nor assoc.navigableOwnedEnd; set_navigability(assoc, end, None) applied
\* to that state puts end into assoc.ownedEnd and takes it out of the class's
\* ownedAttribute.
C3_NavigableClassEnd ==
    (/\ res.op = "set_navigability"
     /\ res.arg = NavTrue
     /\ ~res.raised
     /\ IsInstance(cls[type[Opposite(Heap, res.b)]], "Class")) =>
        LET owner == type[Opposite(Heap, res.b)]
            next  == set_navigability(Heap, res.a, res.b, NavNone).h
        IN  /\ In(res.b, ownedAttribute[owner])
            /\ ~In(res.b, ownedEnd[res.a])
            /\ ~In(res.b, navigableOwnedEnd[res.a])
            /\ In(res.b, next.ownedEnd[res.a])
            /\ ~In(res.b, next.ownedAttribute[owner])

\* set_navigability(assoc, end, True) has acted on an end whose opposite is
\* typed by a Class while the end itself is typed by an Actor.
C3_Witness ==
    /\ res.op = "set_navigability"
    /\ res.arg = NavTrue
    /\ ~res.raised
    /\ cls[type[Opposite(Heap, res.b)]] = "Class"
    /\ cls[type[res.b]] = "Actor"

\* The type x is none of Artifact, Class, DataType, Interface and
\* StructuredClassifier.
NoAttributeOwner(x) ==
    Mro(cls[x]) \cap {"Artifact", "Class", "DataType", "Interface",
                      "StructuredClassifier"} = {}

\* The element e is held by no ownedAttribute collection.
NoOwnedAttribute(e) == \A x \in 1..Len(cls) : ~In(e, ownedAttribute[x])

\* C13: set_navigability(assoc, end, True) with end.opposite.type none of
\* the types that own attributes leaves end in assoc.navigableOwnedEnd and
\* in no other holding collection; set_navigability(assoc, end, False)
\* leaves end in no holding collection and still a member end of assoc;
\* both from every earlier navigability of the two ends.
C13_NavigableOwnedEnd ==
    (res.op = "set_navigability" /\ ~res.raised) =>
        LET owner == type[Opposite(Heap, res.b)]
        IN  /\ (res.arg = NavTrue /\ NoAttributeOwner(owner)) =>
                  /\ In(res.b, navigableOwnedEnd[res.a])
                  /\ ~In(res.b, ownedEnd[res.a])
                  /\ NoOwnedAttribute(res.b)
            /\ res.arg = NavFalse =>
                  /\ ~In(res.b, navigableOwnedEnd[res.a])
                  /\ ~In(res.b, ownedEnd[res.a])
                  /\ NoOwnedAttribute(res.b)
                  /\ In(res.b, memberEnd[res.a])

\* set_navigability(assoc, end, True) has acted on an end whose opposite is
\* typed by an Actor while the end itself is typed by a Class.
C13_Witness ==
    /\ res.op = "set_navigability"
    /\ res.arg = NavTrue
    /\ ~res.raised
    /\ cls[type[Opposite(Heap, res.b)]] = "Actor"
    /\ cls[type[res.b]] = "Class"
    /\ In(res.b, navigableOwnedEnd[res.a])

\* set_navigability(assoc, end, False) has acted on an end whose opposite
\* is typed by a Class.
C13_WitnessFalse ==
    /\ res.op = "set_navigability"
    /\ res.arg = NavFalse
    /\ ~res.raised
    /\ cls[type[Opposite(Heap, res.b)]] = "Class"

\* The number of holding collections that hold the end e of association a.
Holders(a, e) ==
    Cardinality({x \in 1..Len(cls) : In(e, ownedAttribute[x])})
        + (IF In(e, ownedEnd[a]) THEN 1 ELSE 0)
        + (IF In(e, navigableOwnedEnd[a]) THEN 1 ELSE 0)

\* C14: in every state create_association and set_navigability reach, each
\* end of an association is one of its member ends and is held by at most
\* one of the opposite type's ownedAttribute, assoc.ownedEnd and
\* assoc.navigableOwnedEnd.
C14_UnambiguousNavigability ==
    \A e \in OfClass(Heap, "Property") :
        association[e] # None =>
            /\ In(e, memberEnd[association[e]])
            /\ Holders(association[e], e) <= 1
            /\ \A x \in 1..Len(cls) :
                   In(e, ownedAttribute[x]) => x = type[Opposite(Heap, e)]

\* Both ends of a Class's association with itself are navigable: the
\* Class's ownedAttribute holds the two.
C14_Witness ==
    \E a \in OfClass(Heap, "Association") :
        /\ Len(memberEnd[a]) = 2
        /\ cls[type[memberEnd[a][1]]] = "Class"
        /\ type[memberEnd[a][1]] = type[memberEnd[a][2]]
        /\ Len(ownedAttribute[type[memberEnd[a][1]]]) = 2
        /\ res.op = "set_navigability"

\* The graph h with the element e taken out of every holding collection.
Without(h, e) ==
    [h EXCEPT !.ownedAttribute = [x \in DOMAIN @ |-> Remove(@[x], e)],
              !.ownedEnd = [x \in DOMAIN @ |-> Remove(@[x], e)],
              !.navigableOwnedEnd = [x \in DOMAIN @ |-> Remove(@[x], e)]]

\* C15: set_navigability(assoc, end, nav) changes where end is held and
\* nothing else: the ends the holding collections hold besides end, the
\* opposite end and the ends of other associations among them, are the same
\* and in the same order as before, also in an ownedAttribute collection
\* that both ends of a self-association share, and every other attribute
\* of the graph is unchanged.
C15_OnlyTheEndMoves ==
    (res.op = "set_navigability" /\ ~res.raised) =>
        Without(Heap, res.b) = Without(res.pre, res.b)

\* set_navigability has moved one end of a Class's association with itself
\* out of the Class's ownedAttribute, which held both ends and an end of
\* the other association.
C15_Witness ==
    /\ res.op = "set_navigability"
    /\ ~res.raised
    /\ res.arg # NavTrue
    /\ type[res.b] = 1
    /\ type[Opposite(Heap, res.b)] = 1
    /\ Len(res.pre.ownedAttribute[1]) = 3
    /\ In(res.b, res.pre.ownedAttribute[1])
    /\ Len(ownedAttribute[1]) = 2

\* The delegation rule of create_connector as the specification words it:
\* one role is a Port and the other a Property that is not a Port.
PortAndProperty(x, y) ==
    /\ IsInstance(cls[x], "Port")
    /\ IsInstance(cls[y], "Property")
    /\ ~IsInstance(cls[y], "Port")

\* C4: create_connector sets the connector's kind to "delegation" if and
\* only if exactly one of the two roles is a Port and the other a Property,
\* and to "assembly" otherwise.
C4_ConnectorKind ==
    (res.op = "create_connector" /\ ~res.raised) =>
        kind[res.ret] =
            IF PortAndProperty(res.a, res.b) \/ PortAndProperty(res.b, res.a)
            THEN "delegation" ELSE "assembly"

C9_CreateAssociation ==
    (res.op = "create_association" /\ ~res.raised) =>
        LET assoc == res.ret
            end_a == res.ret + 1
            end_b == res.ret + 2
        IN  /\ end_b = Len(cls)
            /\ cls[assoc] = "Association"
            /\ cls[end_a] = "Property" /\ cls[end_b] = "Property"
            /\ {assoc, end_a, end_b} \subseteq live
            /\ memberEnd[assoc] = <<end_a, end_b>>
            /\ association[end_a] = assoc /\ association[end_b] = assoc
            /\ type[end_a] = res.a /\ type[end_b] = res.b
            /\ Range(ownedEnd[assoc]) = {end_a, end_b}
            /\ navigableOwnedEnd[assoc] = <<>>
            /\ \A i \in 1..Len(cls) :
                  /\ ~In(end_a, ownedAttribute[i])
                  /\ ~In(end_b, ownedAttribute[i])
                  /\ i # assoc =>
                       /\ Range(memberEnd[i]) \cap {end_a, end_b} = {}
                       /\ Range(ownedEnd[i]) \cap {end_a, end_b} = {}

\* An association was created from the Class to the Actor.
C9_Witness ==
    /\ res.op = "create_association"
    /\ ~res.raised
    /\ cls[res.a] = "Class"
    /\ cls[res.b] = "Actor"
    /\ Len(memberEnd[res.ret]) = 2

\* The graph h without the elements created after the n-th.
Upto(h, n) ==
    [f \in DOMAIN h |->
        IF f = "live" THEN h.live \cap 1..n ELSE SubSeq(h[f], 1, n)]

\* remove_stereotype(e, st) has just followed apply_stereotype(e, st).
AppliedThenRemoved ==
    /\ prev.op = "apply_stereotype"
    /\ ~prev.raised
    /\ res.op = "remove_stereotype"
    /\ res.a = prev.a
    /\ res.b = prev.b

\* The instances among q whose classifier is exactly the stereotype st.
InstancesOf(h, q, st) == {o \in Range(q) : h.classifier[o] = <<st>>}

\* The stereotype st is applied to element e in h.
IsApplied(h, e, st) ==
    \E o \in Range(h.appliedStereotype[e]) : In(st, h.classifier[o])

\* C6 (as claimed): apply_stereotype(element, stereotype) followed by
\* remove_stereotype(element, stereotype) returns the element's
\* appliedStereotype collection to its prior state, whatever that state
\* was, and leaves no stray InstanceSpecification in the model.
C6_ApplyRemoveRestoresAlways ==
    AppliedThenRemoved =>
        /\ appliedStereotype[res.a] = prev.pre.appliedStereotype[res.a]
        /\ live = prev.pre.live

\* C6 (amended): apply_stereotype followed by remove_stereotype with the
\* same operands leaves every stereotype applied to the element as many
\* times as before and as many live elements as before; when the stereotype
\* was not applied to the element before, the collection holds the same
\* instances in the same order as before and the graph is the prior graph
\* but for the one discarded element.
C6_ApplyRemoveRestores ==
    AppliedThenRemoved =>
        LET e   == res.a
            pre == prev.pre
        IN  /\ \A st \in OfClass(Heap, "Stereotype") :
                  Cardinality(InstancesOf(Heap, appliedStereotype[e], st))
                    = Cardinality(InstancesOf(pre, pre.appliedStereotype[e],
                                              st))
            /\ Len(appliedStereotype[e]) = Len(pre.appliedStereotype[e])
            /\ Cardinality(live) = Cardinality(pre.live)
            /\ ~IsApplied(pre, e, res.b) =>
                  /\ appliedStereotype[e] = pre.appliedStereotype[e]
                  /\ live = pre.live
                  /\ prev.ret \notin live
                  /\ Upto(Heap, Len(pre.cls)) = pre

\* A stereotype was applied to and removed from an element that carried
\* another stereotype and not this one.
C6_Witness ==
    /\ AppliedThenRemoved
    /\ prev.pre.appliedStereotype[res.a] # <<>>
    /\ ~IsApplied(prev.pre, res.a, res.b)

\* The indices of q whose instance has the stereotype st as the first of
\* its classifiers.
Matching(h, q, st) ==
    {i \in 1..Len(q) : h.classifier[q[i]] # <<>> /\ h.classifier[q[i]][1] = st}

\* C12: remove_stereotype(element, stereotype) raises nothing; it takes out
\* of element's appliedStereotype the first instance whose classifier is the
\* stereotype, and only that one, and discards it, every other instance
\* (later ones of the same stereotype too) staying applied, live and
\* classified as before; with no such instance the graph is unchanged.
C12_RemoveFirstOnly ==
    (res.op = "remove_stereotype") =>
        LET e   == res.a
            pre == res.pre
            q   == pre.appliedStereotype[e]
            ms  == Matching(pre, q, res.b)
        IN  /\ ~res.raised
            /\ ms = {} => Heap = pre
            /\ ms # {} =>
                  LET i == CHOOSE k \in ms : \A l \in ms : k <= l
                  IN  /\ appliedStereotype[e] =
                             SubSeq(q, 1, i - 1) \o SubSeq(q, i + 1, Len(q))
                      /\ live = pre.live \ {q[i]}
                      /\ \A x \in 1..Len(cls) :
                             /\ x # e => appliedStereotype[x] =
                                             pre.appliedStereotype[x]
                             /\ x # q[i] => classifier[x] = pre.classifier[x]

\* remove_stereotype was called on an element that carried two instances
\* of the stereotype after an instance of another.
C12_Witness ==
    /\ res.op = "remove_stereotype"
    /\ Len(res.pre.appliedStereotype[res.a]) = 3
    /\ Matching(res.pre, res.pre.appliedStereotype[res.a], res.b) = {2, 3}

\* remove_stereotype was called for a stereotype the element, which carries
\* another, does not carry.
C12_WitnessNoMatch ==
    /\ res.op = "remove_stereotype"
    /\ res.pre.appliedStereotype[res.a] # <<>>
    /\ Matching(res.pre, res.pre.appliedStereotype[res.a], res.b) = {}

\* The stereotypes an Extension of which reaches a live Class of element's
\* model whose name is the name of one of element's kinds.
Reaching(e) ==
    {st \in Instances(Heap, "Stereotype") :
        \E x \in Instances(Heap, "Extension") \cap live :
            /\ ownedEnd[x] # <<>>
            /\ type[ownedEnd[x][1]] = st
            /\ \E m \in Range(memberEnd[x]) :
                  /\ type[m] # None
                  /\ IsInstance(cls[type[m]], "Class")
                  /\ model[type[m]] = model[e]
                  /\ \E k \in Mro(cls[e]) : name[type[m]] = ClassName(k)}

\* S and the stereotypes that specialize, to any depth, a member of S.
RECURSIVE Specializations(_)
Specializations(S) ==
    LET T == S \cup {st \in Instances(Heap, "Stereotype") :
                        \E g \in Instances(Heap, "Generalization") \cap live :
                            specific[g] = st /\ general[g] \in S}
    IN  IF T = S THEN S ELSE Specializations(T)

\* What C10 says of a list get_stereotypes returned.
StereotypesOf(e, val) ==
    /\ \A i, j \in 1..Len(val) : i # j => val[i] # val[j]
    /\ Range(val) = IF IsInstance(cls[e], "Stereotype") THEN {}
                    ELSE Specializations(Reaching(e))

\* C10: get_stereotypes(element) returns, each exactly once, every
\* Stereotype whose Extension reaches a Class named as one of element's
\* kinds and every Stereotype that specializes, to any depth, one already
\* found, and nothing else; for a Stereotype it returns the empty list.
C10_GetStereotypes ==
    (res.op = "get_stereotypes") =>
        /\ ~res.raised
        /\ StereotypesOf(res.a, res.val)

\* Whenever get_stereotypes returns, it returns what C10 says.
GetStereotypesReturned ==
    (res.op = "get_stereotypes" /\ ~res.raised) =>
        StereotypesOf(res.a, res.val)

\* get_stereotypes returned four stereotypes for the Component.
GetStereotypesReturnedFour ==
    /\ res.op = "get_stereotypes"
    /\ ~res.raised
    /\ cls[res.a] = "Component"
    /\ Len(res.val) = 4

\* C11: the list get_stereotypes returns is in non-decreasing order of the
\* display names stereotype_name gives the stereotypes it holds.
C11_SortedByDisplayName ==
    (res.op = "get_stereotypes" /\ ~res.raised) =>
        \A i, j \in 1..Len(res.val) :
            i < j => ~LessStr(stereotype_name(Heap, res.val[j]),
                              stereotype_name(Heap, res.val[i]))

\* Whenever get_stereotypes returns, the list is in non-decreasing order of
\* the names themselves.
GetStereotypesSortedByName ==
    (res.op = "get_stereotypes" /\ ~res.raised) =>
        \A i, j \in 1..Len(res.val) :
            i < j => ~LessStr(name[res.val[j]], name[res.val[i]])

\* get_<X>_value_as_string(obj) has just followed a call of
\* set_<X>_value_from_string(obj, s) that did not raise, X being the feature
\* feat.
RoundTrip(feat) ==
    /\ res.a # None
    /\ feat \in Features(cls[res.a])
    /\ res.op = GetAsStringOp(Family(cls[res.a]), feat)
    /\ prev.op = SetFromStringOp(Family(cls[res.a]), feat)
    /\ prev.a = res.a
    /\ ~prev.raised

\* A decimal integer the way str() writes it: no leading zero, no -0.
CanonicalInt(s) ==
    \/ s = <<"0">>
    \/ isnumeric(s) /\ s[1] # "0"
    \/ Len(s) >= 2 /\ s[1] = "-" /\ isnumeric(Tail(s)) /\ s[2] # "0"

\* The string s is the text of a literal of class c.
Canonical(c, s) ==
    CASE c = "LiteralString" -> TRUE
      [] c = "LiteralBoolean" -> s \in {StrTrue, StrFalse}
      [] c = "LiteralInteger" -> CanonicalInt(s)
      [] c = "LiteralUnlimitedNatural" -> s = StrStar \/ CanonicalInt(s)
      [] OTHER -> FALSE

\* C5 (as claimed): for every owner kind, every feature X and every string s
\* the setter accepts for a supported literal kind,
\* set_X_value_from_string(obj, s) followed by get_X_value_as_string(obj)
\* returns s.
C5_RoundTripAnyString ==
    \A feat \in {"default", "lower", "upper"} :
        (/\ RoundTrip(feat)
         /\ Held(Heap, res.a, feat) # None \/ prev.arg = NoneStr) =>
            /\ ~res.raised
            /\ res.val = prev.arg

\* C5 (amended): set_X_value_from_string(obj, s) followed by
\* get_X_value_as_string(obj) returns s for every owner kind, every feature
\* X and every accepted s that is the text of the literal it makes: any
\* string for a string literal, "true" or "false" for a boolean, a decimal
\* integer without leading zeros (and not "-0") for an integer, such an
\* integer or "*" for an unlimited natural; None reads back as None.
C5_RoundTripCanonical ==
    \A feat \in {"default", "lower", "upper"} :
        (/\ RoundTrip(feat)
         /\ \/ prev.arg = NoneStr
            \/ /\ Held(Heap, res.a, feat) # None
               /\ Canonical(cls[Held(Heap, res.a, feat)], prev.arg)) =>
            /\ ~res.raised
            /\ res.val = prev.arg

\* "*" was set as the upper value of the ConnectorEnd and read back.
C5_Witness ==
    /\ RoundTrip("upper")
    /\ cls[res.a] = "ConnectorEnd"
    /\ prev.arg = StrStar
    /\ res.val = StrStar

\* The literals that name owner as their owner for the feature feat.
OwnedBy(owner, feat) ==
    {l \in live :
        CASE feat = "default" ->
               owningProperty[l] = owner \/ owningParameter[l] = owner
          [] feat = "lower" -> owningLower[l] = owner
          [] feat = "upper" -> owningUpper[l] = owner
          [] feat = "slot" -> owningSlot[l] = owner}

\* The setters of literals.
LiteralSetters ==
    {SetFromStringOp(fam, feat) :
        fam \in {"property", "parameter", "multiplicity"},
        feat \in {"default", "lower", "upper"}}
      \cup {SetOp(fam, feat) :
              fam \in {"property", "parameter", "multiplicity"},
              feat \in {"default", "lower", "upper"}}
      \cup {"set_slot_value"}

\* C7: after any sequence of literal setter calls, typed or from-string,
\* with a value or without, a feature holds at most one literal; the call
\* has unlinked the literal the feature held before it, and no literal a
\* feature held before the call is left in the model unattached; a setter
\* called without a value leaves the feature empty.
C7_AtMostOneLiteral ==
    /\ \A owner \in 1..Len(cls) :
          \A feat \in {"default", "lower", "upper", "slot"} :
              /\ Cardinality(OwnedBy(owner, feat)) <= 1
              /\ OwnedBy(owner, feat) \subseteq {Held(Heap, owner, feat)}
    /\ (res.op \in LiteralSetters) =>
          LET feat == res.val[1]
              old  == Held(res.pre, res.a, feat)
              new  == Held(Heap, res.a, feat)
          IN  /\ old # None => old \notin live
              /\ res.arg = NoneStr => new = None
              /\ (new # None /\ new \in live) => OwnedBy(res.a, feat) = {new}
              /\ (Attached(res.pre) \cap live) \subseteq Attached(Heap)

\* A setter replaced the literal its feature held by a new one.
C7_Witness ==
    /\ res.op \in LiteralSetters
    /\ Held(res.pre, res.a, res.val[1]) # None
    /\ Held(Heap, res.a, res.val[1]) # None
    /\ Held(Heap, res.a, res.val[1]) \in live
    /\ Held(res.pre, res.a, res.val[1]) \notin live

\* C16: after any sequence of literal setter calls every literal a
\* defaultValue, lowerValue, upperValue or Slot value refers to is a live
\* element of the model; after set_parameter_default_value(parameter, v)
\* with a literal v, the one the parameter already held included,
\* parameter.defaultValue is v and v is an element of the model.
C16_ReferencedLiteralsLive ==
    /\ Attached(Heap) \subseteq live
    /\ (res.op = "set_parameter_default_value" /\ res.arg # NoneStr) =>
          /\ ~res.raised
          /\ defaultValue[res.a] = res.arg[2]
          /\ res.arg[2] \in live

\* set_parameter_default_value was passed the literal the parameter held.
Reassigned ==
    /\ res.op = "set_parameter_default_value"
    /\ res.arg # NoneStr
    /\ res.arg[2] = res.pre.defaultValue[res.a]

\* A setter call that was not passed the literal its parameter held, made
\* on a graph whose referenced literals are live, leaves them live.
ReferencedLiteralsLiveUnlessReassigned ==
    (/\ res.op \in LiteralSetters
     /\ Attached(res.pre) \subseteq res.pre.live
     /\ ~Reassigned) => C16_ReferencedLiteralsLive

=============================================================================
